---- MODULE Spec2Model ----
(***************************************************************************)
(* A model of loader.py: the Debian man-page loader.                       *)
(*                                                                         *)
(* Strings are sequences of tokens.  In the run model (Spec) a token is a  *)
(* path component, a suffix (".deb", ".gz") or a separator ("/", "\\"), so *)
(* split, basename, replace, endswith and the regular-expression search    *)
(* are computed on sequences as the code computes them on characters.  In  *)
(* the index-parsing model (SpecParse) a token is one character.           *)
(***************************************************************************)
EXTENDS Integers, Sequences, FiniteSets, TLC

\* ------------------------------------------------------------------ bounds
\* Longest package index of a run.
MaxPkgs == 3
\* Width of the worker pool: max_workers=32 in the source, scaled down so
\* that an index of MaxPkgs entries is longer than the pool is wide.
PoolWidth == 2
\* Most lines of an index text, and most characters after a line's head.
MaxLines == 2
MaxBody == 3

VARIABLES
    sep,            \* os.sep of the platform the program runs on
    index,          \* the package references listed by the remote index
    mainPc,         \* position of main()
    debLinks,       \* deb_links
    submitted,      \* number of executor.submit calls made so far
    completed,      \* completed
    collected,      \* tasks whose future as_completed has yielded
    tpc,            \* position of each download_and_process_package call
    terr,           \* the exception a task ended with: [stage, kind]
    tdirs,          \* os.walk: directories a harvest has still to visit
    tcand,          \* files of the directory being visited, still to handle
    tcur,           \* the src_file a harvest is decompressing
    tmp,            \* downloaded files in the working directory, by name
    scratchDirs,    \* directories below UNPACKING_DIR that exist, by path:
                    \* extraction directories, and MAN_PAGE_DIR
    scratchFiles,   \* files below extraction directories
    corpus,         \* pages written into MAN_PAGE_DIR, by name
    printed,        \* the line the result loop of main printed last
    hquiet,         \* history: the task's harvest ran with no other task running
    ptext,          \* the decompressed index, a sequence of characters
    plines,         \* lines of the index still to scan
    plinks,         \* deb_links as built so far, each link a sequence of characters
    ppc             \* position of the index parsing

vars == <<sep, index, mainPc, debLinks, submitted, completed, collected, tpc,
          terr, tdirs, tcand, tcur, tmp, scratchDirs, scratchFiles, corpus,
          printed, hquiet, ptext, plines, plinks, ppc>>

Tasks == 1..MaxPkgs

\* ------------------------------------------------------- string functions
\* s.startswith(p)
StartsWith(s, p) == Len(s) >= Len(p) /\ SubSeq(s, 1, Len(p)) = p

\* s.endswith(p)
EndsWith(s, p) == Len(s) >= Len(p) /\ SubSeq(s, Len(s) - Len(p) + 1, Len(s)) = p

\* p occurs in s (re.search of a literal, `in`)
Contains(s, p) == \E k \in 1..(Len(s) - Len(p) + 1) : SubSeq(s, k, k + Len(p) - 1) = p

\* the largest position of s holding a token of T, 0 if there is none
LastIndexOf(s, T) ==
    LET I == {k \in 1..Len(s) : s[k] \in T}
    IN  IF I = {} THEN 0 ELSE CHOOSE k \in I : \A m \in I : m <= k

\* s.split(t)[-1] for the tokens T
AfterLast(s, T) == SubSeq(s, LastIndexOf(s, T) + 1, Len(s))

\* s.replace(t, '') for a one-token t
RemoveAll(s, t) == SelectSeq(s, LAMBDA x : x # t)

\* ------------------------------------------------------------- constants
UNPACKING_DIR == <<"man_data">>

\* os.path.join(a, b) for a relative b
PathJoin(a, b) == a \o <<sep>> \o b

MAN_PAGE_DIR == PathJoin(UNPACKING_DIR, <<"man_pages">>)

\* the separators os.path.basename splits at: ntpath takes both
BasenameSeps == IF sep = "\\" THEN {"/", "\\"} ELSE {"/"}

\* os.path.basename
Basename(p) == AfterLast(p, BasenameSeps)

\* The alternatives of man_page_regex, a raw string: each \\ matches one
\* backslash, and the fourth alternative ends in a forward slash.
ManPageRegex ==
    { <<"usr", "\\", "share", "\\", "man", "\\">>,
      <<"usr", "\\", "man", "\\">>,
      <<"usr", "\\", "X11R6", "\\", "man", "\\">>,
      <<"usr", "\\", "local", "\\", "man", "/">>,
      <<"opt", "\\", "man", "\\">> }

\* man_page_regex.search(root)
RegexSearch(root) == \E alt \in ManPageRegex : Contains(root, alt)

\* ----------------------------------------------------- the remote mirror
RefAX == <<"pool", "/", "a", "/", "x", ".deb">>
RefBX == <<"pool", "/", "b", "/", "x", ".deb">>
RefAY == <<"pool", "/", "a", "/", "y", ".deb">>
RefAZ == <<"pool", "/", "a", "/", "z", ".deb">>
RefMP == <<"pool", "/", "m", "/", "man_pages", ".deb">>

PackageRefs == {RefAX, RefBX, RefAY, RefAZ, RefMP}

DirManShare == <<"usr", "share", "man", "man1">>
DirManLocal == <<"usr", "local", "man", "man1">>
DirBin == <<"usr", "bin">>

\* a file of a package payload: its directory, its name, and whether its
\* bytes are a well-formed gzip stream
TarFile(d, n, ok) == [dir |-> d, name |-> n, ok |-> ok]

\* a member of a container archive: its name, how its bytes are really
\* encoded, and the files of the tar stream it holds
Member(n, enc, files) == [name |-> n, enc |-> enc, files |-> files]

DebianBinary == Member(<<"debian-binary">>, "none", {})
ControlTar == Member(<<"control.tar", ".xz">>, "xz", {})

\* the container archive the mirror serves for a package reference
Remote(ref) ==
    CASE ref = RefAX ->
            << DebianBinary, ControlTar,
               Member(<<"data.tar", ".xz">>, "xz",
                      { TarFile(DirManShare, <<"foo", ".1", ".gz">>, TRUE),
                        TarFile(DirManShare, <<"baz", ".1">>, TRUE),
                        TarFile(DirBin, <<"foo">>, TRUE) }) >>
      [] ref = RefBX ->
            << DebianBinary, ControlTar,
               Member(<<"data.tar", ".gz">>, "gz",
                      { TarFile(DirManShare, <<"foo", ".1", ".gz">>, FALSE),
                        TarFile(DirManLocal, <<"bar", ".1", ".gz">>, TRUE) }) >>
      [] ref = RefAY ->
            << DebianBinary, ControlTar,
               Member(<<"data.tar", ".bz2">>, "bz2",
                      { TarFile(DirManShare, <<"foo", ".1", ".gz">>, TRUE) }) >>
      [] ref = RefAZ ->
            << DebianBinary, ControlTar,
               Member(<<"data.tar">>, "corrupt", {}) >>
      [] OTHER ->
            << DebianBinary, ControlTar >>

\* ------------------------------------------------------------ file names
MirrorBase == <<"http:", "/", "/", "ftp.ca.debian.org", "/", "debian", "/">>

\* full_link
FullLink(link) == MirrorBase \o link

\* download_file: local_filename = url.split('/')[-1]
LocalFilename(url) == AfterLast(url, {"/"})

\* deb_path
DebPath(link) == LocalFilename(FullLink(link))

\* extract_to
ExtractTo(link) == PathJoin(UNPACKING_DIR, RemoveAll(Basename(DebPath(link)), ".deb"))

\* file[:-3]: the name without its last three characters, the token ".gz"
StripGz(name) == SubSeq(name, 1, Len(name) - 1)

\* file.endswith('.gz')
IsGz(name) == EndsWith(name, <<".gz">>)

RECURSIVE JoinAll(_, _)
\* the path os.walk and tarfile build for a directory of the tree below p
JoinAll(p, comps) ==
    IF comps = <<>> THEN p ELSE JoinAll(PathJoin(p, <<Head(comps)>>), Tail(comps))

\* ------------------------------------------------------------ extract_deb
\* tar_mode from the member's suffix
TarMode(name) ==
    IF EndsWith(name, <<".gz">>) THEN "r:gz"
    ELSE IF EndsWith(name, <<".xz">>) THEN "r:xz"
    ELSE "r"

\* a mutant of TarOpens: tarfile reads whatever bytes it is given
TarOpensAny(mode, enc) == TRUE

\* tarfile.open(mode=...) succeeds on bytes encoded enc; mode 'r' reads with
\* transparent compression
TarOpens(mode, enc) ==
    \/ mode = "r:gz" /\ enc = "gz"
    \/ mode = "r:xz" /\ enc = "xz"
    \/ mode = "r" /\ enc \in {"tar", "gz", "bz2", "xz"}

\* name.startswith(b'data.tar')
IsPayload(name) == StartsWith(name, <<"data.tar">>)

RECURSIVE ExtractMembers(_, _, _)
\* the loop over archive.archived_files from member k on: the files written
\* below extract_to, and whether tarfile raised
ExtractMembers(ms, k, acc) ==
    IF k > Len(ms) THEN [ok |-> TRUE, files |-> acc]
    ELSE IF ~IsPayload(ms[k].name) THEN ExtractMembers(ms, k + 1, acc)
    ELSE LET tar == TarFile(<<>>, ms[k].name, ms[k].enc = "gz")
         IN  IF TarOpens(TarMode(ms[k].name), ms[k].enc)
             THEN ExtractMembers(ms, k + 1, acc \cup {tar} \cup ms[k].files)
             ELSE [ok |-> FALSE, files |-> acc \cup {tar}]

\* ------------------------------------------------------------------ state
Absent == [st |-> "absent", by |-> 0]
NoErr == [stage |-> "none", kind |-> "none"]
NoFile == [at |-> <<>>, dir |-> <<>>, name |-> <<>>, ok |-> FALSE]
NoLine == [kind |-> "none", count |-> 0, total |-> 0, package |-> <<>>, exc |-> "none"]

TmpNames == {DebPath(r) : r \in PackageRefs}

AllTarFiles == UNION {UNION {Remote(r)[k].files : k \in 1..Len(Remote(r))} : r \in PackageRefs}

DestNames ==
    {StripGz(f.name) : f \in {g \in AllTarFiles : IsGz(g.name)}}
    \cup {StripGz(<<"data.tar", ".gz">>)}

Indexes == UNION {[1..n -> PackageRefs] : n \in 0..MaxPkgs}

\* the run has not begun: nothing is on disk and no task exists
RunStart ==
    /\ mainPc = "start"
    /\ debLinks = <<>>
    /\ submitted = 0
    /\ completed = 0
    /\ collected = {}
    /\ tpc = [i \in Tasks |-> "idle"]
    /\ terr = [i \in Tasks |-> NoErr]
    /\ tdirs = [i \in Tasks |-> {}]
    /\ tcand = [i \in Tasks |-> {}]
    /\ tcur = [i \in Tasks |-> NoFile]
    /\ tmp = [n \in TmpNames |-> Absent]
    /\ scratchDirs = {}
    /\ scratchFiles = {}
    /\ corpus = [n \in DestNames |-> Absent]
    /\ printed = NoLine
    /\ hquiet = [i \in Tasks |-> FALSE]

Init ==
    /\ sep \in {"/", "\\"}
    /\ index \in Indexes
    /\ RunStart
    /\ ptext = <<>>
    /\ plines = <<>>
    /\ plinks = <<>>
    /\ ppc = "idle"

parseVars == <<ptext, plines, plinks, ppc>>
envVars == <<sep, index, parseVars>>
mainVars == <<mainPc, debLinks, submitted, completed, collected, printed>>
walkVars == <<tdirs, tcand, tcur>>
scratchVars == <<scratchDirs, scratchFiles>>
corpusVars == <<corpus>>

\* os.path.exists(MAN_PAGE_DIR)
CorpusExists == MAN_PAGE_DIR \in scratchDirs

Link(i) == debLinks[i]

\* a mutant of Finished: only a task that returned counts as finished
FinishedReturned(i) == tpc[i] = "done"

\* the future of task i is done: the call returned or raised
Finished(i) == tpc[i] \in {"done", "failed"}
Running(i) == tpc[i] \notin {"idle", "queued", "done", "failed"}
InFetch(i) == tpc[i] \in {"fetch", "stream"}
InUnpack(i) == tpc[i] \in {"unpack", "unpack_mk", "unpack_x"}
InHarvest(i) == tpc[i] \in {"h_chk", "h_mk", "h_walk", "h_cand", "h_open", "h_copy"}

\* the task ends with an exception
Raise(i, stage, kind) ==
    /\ tpc' = [tpc EXCEPT ![i] = "failed"]
    /\ terr' = [terr EXCEPT ![i] = [stage |-> stage, kind |-> kind]]

Goto(i, pc) ==
    /\ tpc' = [tpc EXCEPT ![i] = pc]
    /\ UNCHANGED terr

\* ------------------------------------------------------------------- main
\* main, lines 101-106: UNPACKING_DIR is created and the index is
\* downloaded, or the transport raises and main ends with the exception
MainFetchIndex ==
    /\ mainPc = "start"
    /\ \/ mainPc' = "parse"
       \/ mainPc' = "crashed"
    /\ UNCHANGED <<envVars, debLinks, submitted, completed, collected, printed, tpc, terr,
                   walkVars, tmp, scratchVars, corpusVars, hquiet>>

\* main, lines 107-115: extract_gz, readlines and the list of links (the
\* entries of the index; SpecParse models how line 112 reads them from the
\* text); gzip raises on an index that is no gzip stream
MainParse ==
    /\ mainPc = "parse"
    /\ \/ /\ debLinks' = index
          /\ mainPc' = IF index = <<>> THEN "collect" ELSE "submit"
       \/ /\ mainPc' = "crashed"
          /\ UNCHANGED debLinks
    /\ UNCHANGED <<envVars, submitted, completed, collected, printed, tpc, terr,
                   walkVars, tmp, scratchVars, corpusVars, hquiet>>

\* main, line 119: one executor.submit of the dict comprehension
MainSubmit ==
    /\ mainPc = "submit"
    /\ submitted < Len(debLinks)
    /\ submitted' = submitted + 1
    /\ tpc' = [tpc EXCEPT ![submitted + 1] = "queued"]
    /\ mainPc' = IF submitted + 1 = Len(debLinks) THEN "collect" ELSE "submit"
    /\ UNCHANGED <<envVars, debLinks, completed, collected, printed, terr,
                   walkVars, tmp, scratchVars, corpusVars, hquiet>>

\* a mutant of AfterResult: an exception of the task leaves the loop
AfterResultReraise(raised) == IF raised THEN "crashed" ELSE "collect"

\* main, lines 124-128: future.result() inside try/except Exception; the
\* loop goes on whether the task returned or raised
AfterResult(raised) == "collect"

\* main, line 126: the line printed for a task that returned; it carries
\* the count and the total
SuccessLine(count, total) ==
    [kind |-> "progress", count |-> count, total |-> total,
     package |-> <<>>, exc |-> "none"]

\* main, line 128: the line printed for a task that raised; it carries the
\* package and the exception, and neither the count nor the total
ExceptionLine(package, exc) ==
    [kind |-> "exception", count |-> 0, total |-> 0,
     package |-> package, exc |-> exc]

\* main, lines 121-128: as_completed yields a finished future
MainCollect(i) ==
    /\ mainPc = "collect"
    /\ i \in 1..Len(debLinks)
    /\ i \notin collected
    /\ Finished(i)
    /\ completed' = completed + 1
    /\ collected' = collected \cup {i}
    /\ printed' = IF tpc[i] = "failed"
                  THEN ExceptionLine(Link(i), terr[i].kind)
                  ELSE SuccessLine(completed + 1, Len(debLinks))
    /\ mainPc' = AfterResult(tpc[i] = "failed")
    /\ UNCHANGED <<envVars, debLinks, submitted, tpc, terr,
                   walkVars, tmp, scratchVars, corpusVars, hquiet>>

\* main, lines 118-128: as_completed is exhausted and the executor is left
MainExit ==
    /\ mainPc = "collect"
    /\ collected = 1..Len(debLinks)
    /\ mainPc' = "done"
    /\ UNCHANGED <<envVars, debLinks, submitted, completed, collected, printed, tpc, terr,
                   walkVars, tmp, scratchVars, corpusVars, hquiet>>

\* ------------------------------------------------------------ worker pool
\* a mutant of CanStart: a thread per submitted package
CanStartUnbounded(n) == TRUE

\* ThreadPoolExecutor(max_workers=...): a work item starts when fewer than
\* the pool's width are running
CanStart(n) == n < PoolWidth

NumRunning == Cardinality({j \in Tasks : Running(j)})

\* a worker thread takes the oldest queued work item
Start(i) ==
    /\ tpc[i] = "queued"
    /\ \A j \in Tasks : j < i => tpc[j] # "queued"
    /\ CanStart(NumRunning)
    /\ Goto(i, "fetch")
    /\ hquiet' = [k \in Tasks |-> IF InHarvest(k) THEN FALSE ELSE hquiet[k]]
    /\ UNCHANGED <<envVars, mainVars, walkVars, tmp, scratchVars, corpusVars>>

\* ---------------------------------------------------------- download_file
\* download_file, lines 46-47: requests.get raises, or the local file is
\* opened 'wb', which creates or truncates it
FetchOpen(i) ==
    /\ tpc[i] = "fetch"
    /\ \/ /\ Raise(i, "fetch", "ConnectionError")
          /\ UNCHANGED tmp
       \/ /\ tmp' = [tmp EXCEPT ![DebPath(Link(i))] = [st |-> "partial", by |-> i]]
          /\ Goto(i, "stream")
    /\ UNCHANGED <<envVars, mainVars, walkVars, scratchVars, corpusVars, hquiet>>

\* what the local file holds once task i has written its last chunk: the
\* whole archive if the file is still the one the task opened
StreamedFile(f, i) ==
    IF f.st = "absent" THEN f
    ELSE IF f.by = i THEN [st |-> "complete", by |-> i]
    ELSE [st |-> "partial", by |-> f.by]

\* download_file, lines 48-50: the chunks are written, or the transport
\* raises in the middle and the file stays as far as it was written
FetchStream(i) ==
    /\ tpc[i] = "stream"
    /\ \/ /\ tmp' = [tmp EXCEPT ![DebPath(Link(i))] = StreamedFile(@, i)]
          /\ Goto(i, "unpack")
       \/ /\ Raise(i, "fetch", "ConnectionError")
          /\ UNCHANGED tmp
    /\ UNCHANGED <<envVars, mainVars, walkVars, scratchVars, corpusVars, hquiet>>

\* ------------------------------------------------------------ extract_deb
\* extract_deb, line 17: os.path.exists(extract_to)
UnpackCheck(i) ==
    /\ tpc[i] = "unpack"
    /\ Goto(i, IF ExtractTo(Link(i)) \in scratchDirs THEN "unpack_x" ELSE "unpack_mk")
    /\ UNCHANGED <<envVars, mainVars, walkVars, tmp, scratchVars, corpusVars, hquiet>>

\* extract_deb, line 18: os.makedirs(extract_to) raises if the directory
\* has appeared since the check
UnpackMkdir(i) ==
    /\ tpc[i] = "unpack_mk"
    /\ IF ExtractTo(Link(i)) \in scratchDirs
       THEN /\ Raise(i, "unpack", "FileExistsError")
            /\ UNCHANGED scratchDirs
       ELSE /\ scratchDirs' = scratchDirs \cup {ExtractTo(Link(i))}
            /\ Goto(i, "unpack_x")
    /\ UNCHANGED <<envVars, mainVars, walkVars, tmp, scratchFiles, corpusVars, hquiet>>

\* the files of a tree as files below the directory at
Below(at, files) ==
    {[at |-> at, dir |-> f.dir, name |-> f.name, ok |-> f.ok] : f \in files}

\* the files below extraction directories after new ones are written
Written(old, new) ==
    {g \in old : ~\E f \in new : f.at = g.at /\ f.dir = g.dir /\ f.name = g.name}
    \cup new

\* extract_deb, lines 21-41: the archive is read from deb_path and every
\* payload member is written below extract_to and expanded
UnpackExtract(i) ==
    /\ tpc[i] = "unpack_x"
    /\ LET f == tmp[DebPath(Link(i))]
           at == ExtractTo(Link(i))
       IN  IF f.st # "complete"
           THEN /\ Raise(i, "unpack",
                         IF f.st = "absent" THEN "FileNotFoundError" ELSE "ArchiveFormatError")
                /\ UNCHANGED <<scratchFiles, hquiet>>
           ELSE LET ms == Remote(Link(f.by))
                    res == ExtractMembers(ms, 1, {})
                IN  IF res.files # {} /\ at \notin scratchDirs
                    THEN /\ Raise(i, "unpack", "FileNotFoundError")
                         /\ UNCHANGED <<scratchFiles, hquiet>>
                    ELSE /\ scratchFiles' = Written(scratchFiles, Below(at, res.files))
                         /\ IF res.ok
                            THEN /\ Goto(i, "h_chk")
                                 /\ hquiet' = [hquiet EXCEPT
                                        ![i] = \A j \in Tasks : j # i => ~Running(j)]
                            ELSE /\ Raise(i, "unpack", "ReadError")
                                 /\ UNCHANGED hquiet
    /\ UNCHANGED <<envVars, mainVars, walkVars, tmp, scratchDirs, corpusVars>>

\* ----------------------------------------------- move_and_clean_man_pages
\* lines 67-69: the directories of os.walk(extract_to) whose root the
\* regular expression matches (none if extract_to is no directory); the
\* loop body does nothing for the other directories.  The directories are
\* those present when the walk begins; the files of each are listed when
\* the walk reaches it.
WalkDirs(at) ==
    IF at \notin scratchDirs THEN {}
    ELSE {d \in {<<>>} \cup {f.dir : f \in {g \in scratchFiles : g.at = at}} :
            RegexSearch(JoinAll(at, d))}

\* lines 70-71: the candidates of one matching directory of the walk
Candidates(at, d) ==
    {f \in scratchFiles : f.at = at /\ f.dir = d /\ IsGz(f.name)}

\* line 63: os.path.exists(man_dest_folder)
HarvestCheck(i) ==
    /\ tpc[i] = "h_chk"
    /\ IF CorpusExists
       THEN /\ Goto(i, "h_walk")
            /\ tdirs' = [tdirs EXCEPT ![i] = WalkDirs(ExtractTo(Link(i)))]
       ELSE /\ Goto(i, "h_mk")
            /\ UNCHANGED tdirs
    /\ UNCHANGED <<envVars, mainVars, tcand, tcur, tmp, scratchVars, corpusVars, hquiet>>

\* line 64: os.makedirs(man_dest_folder) raises if the directory has
\* appeared since the check
HarvestMkdir(i) ==
    /\ tpc[i] = "h_mk"
    /\ IF CorpusExists
       THEN /\ Raise(i, "harvest", "FileExistsError")
            /\ UNCHANGED <<tdirs, scratchDirs>>
       ELSE /\ scratchDirs' = scratchDirs \cup {MAN_PAGE_DIR}
            /\ Goto(i, "h_walk")
            /\ tdirs' = [tdirs EXCEPT ![i] = WalkDirs(ExtractTo(Link(i)))]
    /\ UNCHANGED <<envVars, mainVars, tcand, tcur, tmp, scratchFiles, corpus, hquiet>>

\* lines 67-71: os.walk yields the next directory and its files
HarvestWalk(i) ==
    /\ tpc[i] = "h_walk"
    /\ \E d \in tdirs[i] :
         LET cs == Candidates(ExtractTo(Link(i)), d)
         IN  /\ tdirs' = [tdirs EXCEPT ![i] = @ \ {d}]
             /\ tcand' = [tcand EXCEPT ![i] = cs]
             /\ Goto(i, IF cs = {} THEN "h_walk" ELSE "h_cand")
    /\ UNCHANGED <<envVars, mainVars, tcur, tmp, scratchVars, corpusVars, hquiet>>

\* a mutant of ShouldWrite: the destination is written whether it exists
ShouldWriteAlways(dst) == TRUE

\* line 76: not os.path.exists(dst_file)
ShouldWrite(dst) == corpus[dst].st = "absent"

\* lines 70-76 and 83-84: the next file of the directory; it is skipped if
\* its destination exists
HarvestCand(i) ==
    /\ tpc[i] = "h_cand"
    /\ \E c \in tcand[i] :
         /\ tcand' = [tcand EXCEPT ![i] = @ \ {c}]
         /\ IF ShouldWrite(StripGz(c.name))
            THEN /\ tcur' = [tcur EXCEPT ![i] = c]
                 /\ Goto(i, "h_open")
            ELSE /\ UNCHANGED tcur
                 /\ Goto(i, IF tcand[i] = {c} THEN "h_walk" ELSE "h_cand")
    /\ UNCHANGED <<envVars, mainVars, tdirs, tmp, scratchVars, corpusVars, hquiet>>

\* lines 78-79: gzip.open(src_file) and open(dst_file, 'wb'), which creates
\* or truncates the destination
HarvestOpen(i) ==
    /\ tpc[i] = "h_open"
    /\ IF tcur[i] \notin scratchFiles \/ ~CorpusExists
       THEN /\ Raise(i, "harvest", "FileNotFoundError")
            /\ UNCHANGED corpus
       ELSE /\ corpus' = [corpus EXCEPT ![StripGz(tcur[i].name)] =
                              [st |-> "partial", by |-> i]]
            /\ Goto(i, "h_copy")
    /\ UNCHANGED <<envVars, mainVars, walkVars, tmp, scratchVars, hquiet>>

\* what the destination may hold after task i has copied a whole page into
\* it: the page, or, if another task has opened the file since, either
\* writer's bytes mixed; a file removed since stays removed
CopiedFiles(f, i) ==
    IF f.st = "absent" THEN {f}
    ELSE IF f.st = "partial" /\ f.by = i
    THEN {[st |-> "complete", by |-> i]}
    ELSE {[st |-> "complete", by |-> i], [st |-> "mixed", by |-> i]}

\* lines 80-82: shutil.copyfileobj, which raises on a malformed gzip
\* stream, then os.remove(src_file)
HarvestCopy(i) ==
    /\ tpc[i] = "h_copy"
    /\ LET dst == StripGz(tcur[i].name)
       IN  IF ~tcur[i].ok
           THEN /\ Raise(i, "harvest", "BadGzipFile")
                /\ UNCHANGED <<corpus, scratchFiles>>
           ELSE /\ \E f \in CopiedFiles(corpus[dst], i) :
                       corpus' = [corpus EXCEPT ![dst] = f]
                /\ IF tcur[i] \notin scratchFiles
                   THEN /\ Raise(i, "harvest", "FileNotFoundError")
                        /\ UNCHANGED scratchFiles
                   ELSE /\ scratchFiles' = scratchFiles \ {tcur[i]}
                        /\ Goto(i, IF tcand[i] = {} THEN "h_walk" ELSE "h_cand")
    /\ UNCHANGED <<envVars, mainVars, walkVars, tmp, scratchDirs, hquiet>>

\* lines 86-88: the walk is over; shutil.rmtree(extract_to) removes the
\* directory with all it holds, the pages of MAN_PAGE_DIR if extract_to is
\* that directory
HarvestRmtree(i) ==
    /\ tpc[i] = "h_walk"
    /\ tdirs[i] = {}
    /\ LET at == ExtractTo(Link(i))
       IN  IF at \notin scratchDirs
           THEN /\ Raise(i, "harvest", "FileNotFoundError")
                /\ UNCHANGED <<scratchVars, corpus>>
           ELSE /\ scratchDirs' = scratchDirs \ {at}
                /\ scratchFiles' = {f \in scratchFiles : f.at # at}
                /\ corpus' = IF at = MAN_PAGE_DIR
                             THEN [n \in DestNames |-> Absent]
                             ELSE corpus
                /\ Goto(i, "rm_deb")
    /\ UNCHANGED <<envVars, mainVars, walkVars, tmp, hquiet>>

\* --------------------------------------------- download_and_process_package
\* line 97: os.remove(deb_path)
RemoveDeb(i) ==
    /\ tpc[i] = "rm_deb"
    /\ IF tmp[DebPath(Link(i))].st = "absent"
       THEN /\ Raise(i, "cleanup", "FileNotFoundError")
            /\ UNCHANGED tmp
       ELSE /\ tmp' = [tmp EXCEPT ![DebPath(Link(i))] = Absent]
            /\ Goto(i, "done")
    /\ UNCHANGED <<envVars, mainVars, walkVars, scratchVars, corpusVars, hquiet>>

Next ==
    \/ MainFetchIndex
    \/ MainParse
    \/ MainSubmit
    \/ MainExit
    \/ \E i \in Tasks :
         \/ MainCollect(i)
         \/ Start(i)
         \/ FetchOpen(i)
         \/ FetchStream(i)
         \/ UnpackCheck(i)
         \/ UnpackMkdir(i)
         \/ UnpackExtract(i)
         \/ HarvestCheck(i)
         \/ HarvestMkdir(i)
         \/ HarvestWalk(i)
         \/ HarvestCand(i)
         \/ HarvestOpen(i)
         \/ HarvestCopy(i)
         \/ HarvestRmtree(i)
         \/ RemoveDeb(i)

Spec == Init /\ [][Next]_vars

\* ------------------------------------------------------------ scheduling
\* some thread that can take a step takes one in the end: the main thread
\* and the pool's workers are operating-system threads, and every call a
\* step makes returns or raises
Fairness == WF_vars(Next)

\* the indexes of the runs checked for termination: full-length ones, with
\* each kind of package
FairIndexes ==
    { <<RefAX, RefBX, RefAZ>>, <<RefAY, RefMP, RefAX>>, <<RefAZ, RefAY, RefBX>> }

FairInit ==
    /\ sep \in {"/", "\\"}
    /\ index \in FairIndexes
    /\ RunStart
    /\ ptext = <<>>
    /\ plines = <<>>
    /\ plinks = <<>>
    /\ ppc = "idle"

FairSpec == FairInit /\ [][Next]_vars /\ Fairness

\* ---------------------------------------------------- parsing the index
\* the characters str.strip() removes
Whitespace == {" ", "\t", "\n", "\r"}

RECURSIVE LStrip(_)
\* s.lstrip()
LStrip(s) == IF s # <<>> /\ Head(s) \in Whitespace THEN LStrip(Tail(s)) ELSE s

RECURSIVE RStrip(_)
\* s.rstrip()
RStrip(s) ==
    IF s # <<>> /\ s[Len(s)] \in Whitespace THEN RStrip(SubSeq(s, 1, Len(s) - 1)) ELSE s

\* s.strip()
Strip(s) == LStrip(RStrip(s))

\* the first position from k on where s holds c, Len(s) + 1 if there is none
IndexFrom(s, c, k) ==
    LET I == {m \in k..Len(s) : s[m] = c}
    IN  IF I = {} THEN Len(s) + 1 ELSE CHOOSE m \in I : \A n \in I : m <= n

\* line.split(' ')[1], for a line that holds a space
SplitField1(line) ==
    LET a == IndexFrom(line, " ", 1)
        b == IndexFrom(line, " ", a + 1)
    IN  SubSeq(line, a + 1, b - 1)

RECURSIVE ReadLines(_)
\* f.readlines(): the lines of the text, each with its newline
ReadLines(text) ==
    IF text = <<>> THEN <<>>
    ELSE LET k == IndexFrom(text, "\n", 1)
         IN  IF k > Len(text) THEN <<text>>
             ELSE <<SubSeq(text, 1, k)>> \o ReadLines(SubSeq(text, k + 1, Len(text)))

\* 'Filename: '
FieldPrefix == <<"F", "i", "l", "e", "n", "a", "m", "e", ":", " ">>

\* the index texts of the parsing model: lines of a head, a few characters
\* and a newline
LineHeads ==
    { FieldPrefix,
      <<"F", "i", "l", "e", "n", "a", "m", "e", ":">>,
      <<"S", "i", "z", "e", ":", " ">> }

LineBodies == UNION {[1..n -> {"a", " ", "\t"}] : n \in 0..MaxBody}

IndexLines == {h \o b \o <<"\n">> : h \in LineHeads, b \in LineBodies}

RECURSIVE Flatten(_)
Flatten(ls) == IF ls = <<>> THEN <<>> ELSE Head(ls) \o Flatten(Tail(ls))

IndexTexts == {Flatten(ls) : ls \in UNION {[1..n -> IndexLines] : n \in 0..MaxLines}}

ParseInit ==
    /\ sep = "/"
    /\ index = <<>>
    /\ RunStart
    /\ ptext \in IndexTexts
    /\ plines = <<>>
    /\ plinks = <<>>
    /\ ppc = "read"

runVars == <<sep, index, mainVars, tpc, terr, walkVars, tmp, scratchVars,
             corpusVars, hquiet>>

\* main, lines 109-110: the decompressed index is read as lines
ParseRead ==
    /\ ppc = "read"
    /\ plines' = ReadLines(ptext)
    /\ ppc' = "scan"
    /\ UNCHANGED <<runVars, ptext, plinks>>

\* main, line 112: one line of the list comprehension
ParseLine ==
    /\ ppc = "scan"
    /\ plines # <<>>
    /\ plinks' = IF StartsWith(Head(plines), FieldPrefix)
                 THEN Append(plinks, Strip(SplitField1(Head(plines))))
                 ELSE plinks
    /\ plines' = Tail(plines)
    /\ UNCHANGED <<runVars, ptext, ppc>>

\* main, lines 112-114: the comprehension is exhausted
ParseEnd ==
    /\ ppc = "scan"
    /\ plines = <<>>
    /\ ppc' = "done"
    /\ UNCHANGED <<runVars, ptext, plines, plinks>>

ParseNext == ParseRead \/ ParseLine \/ ParseEnd

SpecParse == ParseInit /\ [][ParseNext]_vars

\* ================================================================ claims
\* the directory of the tree of task i's package that holds file f
TreeDir(i, f) == JoinAll(ExtractTo(Link(i)), f.dir)

\* the files of the tree extract_deb expands for task i's package
Tree(i) == ExtractMembers(Remote(Link(i)), 1, {}).files

\* no other package of the index shares task i's working paths
OwnPaths(i) ==
    \A j \in 1..Len(debLinks) :
        j # i => /\ ExtractTo(Link(j)) # ExtractTo(Link(i))
                 /\ DebPath(Link(j)) # DebPath(Link(i))

\* the packages of the index share no working path
DistinctPaths == \A i \in 1..Len(debLinks) : OwnPaths(i)

\* C1: a destination that exists in the corpus is never opened for writing
\* by another worker: once a worker has created corpusDir/<name>, only that
\* worker changes the file (first writer wins, no truncation or overwrite).
\* Stated for indexes whose packages share no working path, and for the
\* writes to a file (its removal is the subject of C17).
C1_FirstWriterWins ==
    [][\A n \in DestNames :
          (/\ corpus'[n] # corpus[n]
           /\ corpus[n].st # "absent"
           /\ corpus'[n].st # "absent"
           /\ DistinctPaths)
              => corpus'[n].by = corpus[n].by]_vars

\* C2: whenever a harvest call ends, by returning or by raising, the
\* scratch directory passed to it no longer exists (stated for packages
\* that share their working paths with no other).
C2_HarvestAlwaysCleans ==
    [][\A i \in Tasks :
          (InHarvest(i) /\ ~InHarvest(i)' /\ OwnPaths(i))
              => ExtractTo(Link(i)) \notin scratchDirs']_vars

\* C3: when a task ends in failure at the unpack step or the harvest step,
\* neither its scratch directory nor its downloaded archive file exists
\* (stated for packages that share their working paths with no other).
C3_FailedTaskCleansUp ==
    [][\A i \in Tasks :
          ((InUnpack(i) \/ InHarvest(i)) /\ tpc'[i] = "failed" /\ OwnPaths(i))
              => /\ ExtractTo(Link(i)) \notin scratchDirs'
                 /\ tmp'[DebPath(Link(i))].st = "absent"]_vars

\* C4: when a task's fetch step fails, no scratch directory and no
\* downloaded archive file of the task exists, not even a partial one
\* (stated for packages that share their working paths with no other).
C4_FailedFetchLeavesNothing ==
    [][\A i \in Tasks :
          (InFetch(i) /\ tpc'[i] = "failed" /\ OwnPaths(i))
              => /\ ExtractTo(Link(i)) \notin scratchDirs'
                 /\ tmp'[DebPath(Link(i))].st = "absent"]_vars

\* C5: failures are isolated: an exception of a task never leaves the
\* result loop of main (main only fails before anything is submitted), a
\* failed task is one that ran and raised (none is cancelled or skipped),
\* and when main ends every submitted task has ended and was collected.
C5_FailureIsolation ==
    /\ mainPc = "crashed" => submitted = 0
    /\ \A i \in Tasks : tpc[i] = "failed" => terr[i].stage # "none"
    /\ mainPc = "done" =>
          /\ submitted = Len(debLinks)
          /\ completed = Len(debLinks)
          /\ \A i \in 1..Len(debLinks) : Finished(i) /\ i \in collected

\* C5 witness: main has ended although a task failed, and a task submitted
\* after the failed one ran to its end.
C5_Witness ==
    /\ mainPc = "done"
    /\ Len(debLinks) = MaxPkgs
    /\ \E i, j \in Tasks : i < j /\ tpc[i] = "failed" /\ tpc[j] = "done"

\* C6: at most PoolWidth tasks have started and not yet ended.
C6_BoundedConcurrency == NumRunning <= PoolWidth

\* C6 witness: the pool is full while a submitted package waits.
C6_Witness ==
    /\ NumRunning = PoolWidth
    /\ \E i \in Tasks : tpc[i] = "queued"

\* C7: two tasks in flight at the same time use distinct scratch
\* directories and distinct downloaded archive files.
C7_ExclusiveWorkspaces ==
    \A i, j \in Tasks :
        (i # j /\ Running(i) /\ Running(j))
            => /\ ExtractTo(Link(i)) # ExtractTo(Link(j))
               /\ DebPath(Link(i)) # DebPath(Link(j))

\* the recognized documentation fragments, with the platform's separator
DocFragments ==
    { <<"usr", sep, "share", sep, "man", sep>>,
      <<"usr", sep, "man", sep>>,
      <<"usr", sep, "X11R6", sep, "man", sep>>,
      <<"usr", sep, "local", sep, "man", sep>>,
      <<"opt", sep, "man", sep>> }

\* C8: when the harvest of a package's tree ends, every .gz file directly
\* in a directory whose path contains a recognized documentation fragment
\* is in the corpus under its name without .gz, and the tree is gone
\* (stated for packages that share their working paths with no other).
C8_HarvestPlacesEveryPage ==
    [][\A i \in Tasks :
          (InHarvest(i) /\ ~InHarvest(i)' /\ OwnPaths(i))
              => /\ \A f \in Tree(i) :
                       (IsGz(f.name)
                        /\ \E frag \in DocFragments : Contains(TreeDir(i, f), frag))
                           => corpus'[StripGz(f.name)].st # "absent"
                 /\ ExtractTo(Link(i)) \notin scratchDirs']_vars

\* task i is harvesting alone a tree, not the corpus directory itself,
\* whose every candidate is already in the corpus, put there by an earlier
\* harvest
SecondRun(i) ==
    /\ InHarvest(i)
    /\ hquiet[i]
    /\ CorpusExists
    /\ ExtractTo(Link(i)) \in scratchDirs
    /\ ExtractTo(Link(i)) # MAN_PAGE_DIR
    /\ \A d \in WalkDirs(ExtractTo(Link(i))) :
          \A f \in Candidates(ExtractTo(Link(i)), d) :
              /\ corpus[StripGz(f.name)].st # "absent"
              /\ corpus[StripGz(f.name)].by # i

\* C9: a harvest that runs after another one, with candidates the corpus
\* already holds, changes nothing in the corpus and does not raise.
C9_HarvestIdempotent ==
    [][\A i \in Tasks :
          SecondRun(i) => (corpus' = corpus /\ tpc'[i] # "failed")]_vars

\* C9 witness: task i, whose package shares its working paths with no
\* other, has harvested alone a tree with a candidate that the walk finds,
\* and the corpus still holds the page an earlier task wrote.
C9_Witness ==
    \E i, j \in Tasks :
        /\ i # j
        /\ tpc[i] \in {"rm_deb", "done"}
        /\ tpc[j] = "done"
        /\ hquiet[i]
        /\ i <= Len(debLinks)
        /\ OwnPaths(i)
        /\ \E f \in Tree(i) :
              /\ IsGz(f.name)
              /\ RegexSearch(TreeDir(i, f))
              /\ corpus[StripGz(f.name)] = [st |-> "complete", by |-> j]

\* C11: a run whose index cannot be fetched or decompressed, or holds no
\* package record, ends in a run-level failure with no task submitted; no
\* run completes normally with zero packages scheduled.
C11_IndexErrorsAreFatal ==
    /\ mainPc = "crashed" => (submitted = 0 /\ \A i \in Tasks : tpc[i] = "idle")
    /\ mainPc = "done" => submitted > 0

\* the container archive holds a member whose name begins with 'data.tar'
HasPayload(ms) == \E k \in 1..Len(ms) : IsPayload(ms[k].name)

\* C12: a task whose container archive holds no payload member ends in
\* failure: it never gets past the unpack step and is never a success.
C12_MissingPayloadFails ==
    \A i \in Tasks :
        (InHarvest(i) \/ tpc[i] \in {"rm_deb", "done"})
            => HasPayload(Remote(Link(i)))

\* the suffixes of a payload member that name a codec: '.gz', '.xz', none
KnownSuffix(name) ==
    \/ name = <<"data.tar">>
    \/ name = <<"data.tar", ".gz">>
    \/ name = <<"data.tar", ".xz">>

\* C13: a payload member whose suffix is none of '.gz', '.xz' and the bare
\* name is rejected: the task of such an archive never gets past the unpack
\* step, and no tar reader has expanded the member below extract_to.
C13_UnknownCodecRejected ==
    \A i \in Tasks :
        (InHarvest(i) \/ tpc[i] \in {"rm_deb", "done"})
            => \A k \in 1..Len(Remote(Link(i))) :
                  IsPayload(Remote(Link(i))[k].name)
                      => KnownSuffix(Remote(Link(i))[k].name)

\* C14: every completion, of a task that returned or of one that raised,
\* prints one progress report that carries the count and the total; the
\* count grows by one per report, and when the run ends it is the number of
\* index entries.
C14_ProgressReports ==
    [][/\ completed' # completed
            => /\ completed' = completed + 1
               /\ printed'.kind = "progress"
               /\ printed'.count = completed'
               /\ printed'.total = Len(debLinks)
       /\ (mainPc' = "done" /\ mainPc # "done")
            => completed = Len(debLinks)]_vars

\* the bytes of a payload member of the archive are no tar stream in any
\* encoding
Undecodable(ms) ==
    \E k \in 1..Len(ms) : IsPayload(ms[k].name) /\ ms[k].enc = "corrupt"

\* the exceptions a task can end with
FailureReasons ==
    {"ConnectionError", "FileExistsError", "FileNotFoundError",
     "ArchiveFormatError", "ReadError", "BadGzipFile"}

\* the tasks of the index whose future holds a result, and those whose
\* future holds an exception
Successes == {i \in 1..Len(debLinks) : tpc[i] = "done"}
Failures == {i \in 1..Len(debLinks) : tpc[i] = "failed"}

StepRank(pc) ==
    CASE pc \in {"idle", "queued"} -> 0
      [] pc \in {"fetch", "stream"} -> 1
      [] pc \in {"unpack", "unpack_mk", "unpack_x"} -> 2
      [] pc \in {"h_chk", "h_mk", "h_walk", "h_cand", "h_open", "h_copy"} -> 3
      [] pc = "rm_deb" -> 4
      [] OTHER -> 5

\* C16: a task goes through fetch, unpack, harvest and the removal of the
\* downloaded archive in that order, the removal coming after the harvest
\* has returned; when a task ends successfully neither its scratch
\* directory nor its downloaded archive exists.
C16_SuccessPathOrdering ==
    [][\A i \in Tasks :
          /\ (tpc'[i] # tpc[i] /\ tpc'[i] # "failed")
                => StepRank(tpc'[i]) \in {StepRank(tpc[i]), StepRank(tpc[i]) + 1}
          /\ (tpc'[i] = "done" /\ tpc[i] # "done")
                => /\ tpc[i] = "rm_deb"
                   /\ ExtractTo(Link(i)) \notin scratchDirs'
                   /\ tmp'[DebPath(Link(i))].st = "absent"]_vars

\* C17: a file that exists in the corpus directory is never deleted.
C17_CorpusMonotonic ==
    [][\A n \in DestNames :
          corpus[n].st # "absent" => corpus'[n].st # "absent"]_vars

\* C18: once the harvest that created a destination has ended, the corpus
\* holds no partial file of it: a partial file is one its writer is still
\* copying.
C18_NoPartialEntries ==
    \A n \in DestNames :
        corpus[n].st = "partial" => tpc[corpus[n].by] = "h_copy"

\* C19: under fair scheduling every run ends: main fails on the index, or
\* every package of the index is taken up by a worker, every task ends, and
\* main leaves the result loop with completed equal to the number of index
\* entries.
C19_RunTerminates ==
    <>(\/ mainPc = "crashed"
       \/ /\ mainPc = "done"
          /\ completed = Len(debLinks)
          /\ \A i \in 1..Len(debLinks) : tpc[i] \in {"done", "failed"})

\* C19 witness: a run of MaxPkgs packages has ended, each package taken up
\* and counted, some of them after waiting for a free worker.
C19_Witness ==
    /\ mainPc = "done"
    /\ MaxPkgs > PoolWidth
    /\ Len(debLinks) = MaxPkgs
    /\ completed = MaxPkgs
    /\ \A i \in Tasks : tpc[i] = "done"

RECURSIVE RecordPaths(_)
\* one entry per line that starts with the field prefix, in order: all that
\* follows the prefix, without trailing whitespace
RecordPaths(ls) ==
    IF ls = <<>> THEN <<>>
    ELSE (IF StartsWith(Head(ls), FieldPrefix)
          THEN <<RStrip(SubSeq(Head(ls), Len(FieldPrefix) + 1, Len(Head(ls))))>>
          ELSE <<>>)
         \o RecordPaths(Tail(ls))

\* C10: the parsed list of package references is, in order, one entry per
\* line starting with 'Filename: ', each entry being everything after the
\* prefix with trailing whitespace trimmed, spaces inside the path kept.
C10_IndexParsing ==
    ppc = "done" => plinks = RecordPaths(ReadLines(ptext))

====
